---- MODULE Spec2Model ----
(***************************************************************************)
(* Payload CMS collection archiver: the backup orchestrator                *)
(* (BackupService, src/src/backupService.js 11-349), the rate-governed API *)
(* client (FetchPayloadClient, src/src/backupService.js 358-624), the file *)
(* manager (FileManager, src/unnamed/part_000) and the configuration        *)
(* (src/src/config.js).                                                     *)
(*                                                                         *)
(* One step of the model is one synchronous segment of the JavaScript code, *)
(* from one await to the next.  The remote API and the file system are the  *)
(* environment: every request may succeed, fail or time out, every file     *)
(* operation may succeed or throw.                                          *)
(***************************************************************************)
EXTENDS Integers, Sequences, FiniteSets, Bags, TLC

\* ------------------------------------------------------------------ bounds
\* Free callers of one client in the gate specification.
NCallers == 3
\* Calls the free callers make altogether in the gate specification.
MaxCalls == 3
\* Failures (requests and file operations) the environment injects in a run.
MaxFaults == 2
\* Largest totalDocs the count endpoint reports.
MaxCount == 1
\* Largest number of documents in one page.
MaxDocs == 1
\* Documents the remote API returns in a run altogether; its pages are empty
\* after that.
MaxReturned == 2
\* The last instant of the clock in the timed gate specification.
MaxTime == 3
\* Calls of performBackup on one BackupService.
MaxRuns == 2

\* -------------------------------------------------------- configuration
\* RATE_LIMIT_CONFIG.concurrency, as set by RATE_LIMIT_CONCURRENCY.
Concurrency == 2
\* RATE_LIMIT_CONFIG.batchSize (the default).
BatchSize == 100
\* The default of getCollectionData's depth option.
DefaultDepth == 2
\* RATE_LIMIT_CONFIG.delay, in ticks of the clock.
Delay == 2
\* BACKUP_CONFIG.depth, as set by BACKUP_DEPTH.
BackupDepth == 3

\* CONFIG after dotenv: the environments of CONFIG and whether api_base and
\* api_key are both set.  "test" is configured, "prod" lacks its variables.
CONFIG == [test |-> TRUE, prod |-> FALSE]

\* The env arguments tried: the two keys of CONFIG and a name that is none.
Envs == {"test", "prod", "staging"}

\* The collection slugs the remote API knows.
Collections == {"users", "posts", "media"}

\* No collection (the `collection` key of a general error entry is absent).
NoCollection == "-"

\* The orchestrator's caller id; the free callers are 1..NCallers.
Run == 0
Callers == 0..NCallers

VARIABLES
  pc,           \* position of performBackup
  env,          \* performBackup's env argument
  isConnected,  \* performBackup: `isConnected`
  stats,        \* BackupService.stats
  names,        \* discoverCollections: `collections` (the slugs)
  infos,        \* discoverCollections: `collectionInfos`
  idx,          \* index of the for-of loop in progress
  count,        \* discoverCollections: `count` of the collection in progress
  threw,        \* the slugs whose count or schema probe threw (history)
  allDocs,      \* getAllCollectionData: `allDocs`
  currentPage,  \* getAllCollectionData: `currentPage`
  fs,           \* what the FileManager has written
  result,       \* the object performBackup returned
  activeCount,  \* p-limit: functions admitted and not yet settled
  queue,        \* p-limit: callers waiting for admission
  rq,           \* per caller: the request it awaits
  requests,     \* the bag of the requests sent (the "API Request" lines)
  faults,       \* failures injected so far
  returned,     \* documents the remote API has returned so far
  served,       \* per collection: the API's answers to its page requests (history)
  calls,        \* calls made by the free callers
  now,          \* the clock (it advances in the timed gate specification only)
  due,          \* per caller: when the timer of its delay() fires (0: no timer)
  lastDispatch, \* when request() last sent a request (Never: not yet)
  runs          \* calls of performBackup on this BackupService, this one included

vars == <<pc, env, isConnected, stats, names, infos, idx, count, threw, allDocs,
          currentPage, fs, result, activeCount, queue, rq, requests, faults,
          returned, served, calls, now, due, lastDispatch, runs>>

runVars == <<pc, env, isConnected, stats, names, infos, idx, count, threw,
             allDocs, currentPage, fs, result, runs>>

\* No request has been sent yet.
Never == 0 - 1

\* What only the gate and the clock change.
timeVars == <<now, due, lastDispatch>>

\* ----------------------------------------------------------------- helpers
RECURSIVE SumSeq(_)
SumSeq(s) == IF s = <<>> THEN 0 ELSE Head(s) + SumSeq(Tail(s))

\* The subsequence of s whose elements satisfy Keep, in the order of s.
RECURSIVE SelectNames(_, _)
SelectNames(s, keep) ==
  IF s = <<>> THEN <<>>
  ELSE IF Head(s) \in keep THEN <<Head(s)>> \o SelectNames(Tail(s), keep)
       ELSE SelectNames(Tail(s), keep)

Range(s) == {s[k] : k \in 1..Len(s)}

Min(a, b) == IF a <= b THEN a ELSE b

\* The documents of page p when it holds n documents: each document is named
\* by the response it came in and its place in it.
PageDocs(p, n) == [k \in 1..n |-> <<p, k>>]

\* ------------------------------------------------- the remote API's answers
\* The keys of access.collections the remote API answers with: the first n
\* of its collections, for every n.
AllNames == <<"users", "posts", "media">>
AccessLists == {SubSeq(AllNames, 1, n) : n \in 0..Len(AllNames)}

\* A caller that awaits nothing.
IdleReq ==
  [st |-> "idle", kind |-> "none", coll |-> NoCollection, page |-> 0,
   limit |-> 0, depth |-> 0, out |-> "none", collections |-> <<>>,
   totalDocs |-> 0, docs |-> 0, hasNextPage |-> FALSE, nextPage |-> 0]

\* The request of a client operation, handed to limitedRequest.
Req(kind, coll, page, limit, depth) ==
  [IdleReq EXCEPT !.st = "queued", !.kind = kind, !.coll = coll,
                  !.page = page, !.limit = limit, !.depth = depth]

\* getAccess: GET /access.
getAccess == Req("access", NoCollection, 0, 0, 0)

\* Mutant: the count is always asked of the first collection.
getCollectionCountOfFirst(coll) == Req("count", AllNames[1], 0, 0, 0)

\* getCollectionCount: GET /{collection}/count.
getCollectionCount(coll) == Req("count", coll, 0, 0, 0)

\* getCollectionData: GET /{collection}?page&limit&depth&sort, with the
\* defaults page = 1, limit = batchSize, depth = 2 for what options lacks.
getCollectionData(coll, page, limit) == Req("data", coll, page, limit, DefaultDepth)

\* Whether the environment may inject one more failure.
MayFail == faults < MaxFaults

\* The outcomes of a file operation: TRUE it succeeds, FALSE it throws.
FsOutcomes == IF MayFail THEN BOOLEAN ELSE {TRUE}

\* Mutant: every page with documents is followed by another request.
hasNextPageAlways(data, page) == TRUE

\* getAllCollectionData: data.hasNextPage || (data.nextPage && data.nextPage >
\* currentPage); nextPage = 0 stands for null.
hasNextPage(data, page) ==
  data.hasNextPage \/ (data.nextPage # 0 /\ data.nextPage > page)

\* The answers the remote API can give to request r: the settled request.
\* request() throws on a non-2xx status ("error") and on the abort after
\* RATE_LIMIT_CONFIG.timeout ("timeout"); otherwise it returns the body.
\* The page size the API uses is its own: at most MaxDocs documents (one for
\* limit = 1), and no more than MaxReturned in a run.  The
\* cursor of a page without documents is never read and is left out.
Answers(r) ==
  LET failed == IF MayFail
                THEN {[r EXCEPT !.st = "done", !.out = o] : o \in {"error", "timeout"}}
                ELSE {}
      ok == [r EXCEPT !.st = "done", !.out = "ok"]
  IN  failed \cup
      CASE r.kind = "access" ->
             {[ok EXCEPT !.collections = l] : l \in AccessLists}
        [] r.kind = "count" ->
             {[ok EXCEPT !.totalDocs = n] : n \in 0..MaxCount}
        [] r.kind = "data" /\ r.limit = 1 ->
             {[ok EXCEPT !.docs = n, !.totalDocs = n] :
                n \in 0..Min(1, MaxReturned - returned)}
        [] OTHER ->
             {ok} \cup
             {[ok EXCEPT !.docs = n, !.hasNextPage = h, !.nextPage = np] :
                n \in 1..Min(MaxDocs, MaxReturned - returned), h \in BOOLEAN,
                np \in {0, r.page, r.page + 1}}

\* -------------------------------------------------------------- the gate
\* limitedRequest: this.limit(async () => { await this.delay(); return
\* requestFn() }).  p-limit queues the function; the caller awaits it.
limitedRequest(c, r) ==
  /\ rq' = [rq EXCEPT ![c] = r]
  /\ queue' = Append(queue, c)

\* The caller has consumed the answer and issues no request.
Consumed(c) ==
  /\ rq' = [rq EXCEPT ![c] = IdleReq]
  /\ UNCHANGED queue

\* Mutant: the gate lets one function too many in.
MayAdmitOneMore == activeCount <= Concurrency

\* Whether p-limit may start the next queued function.
MayAdmit == activeCount < Concurrency

\* p-limit starts the function at the head of its queue: the request is
\* admitted and begins its delay.
Admit(c) ==
  /\ queue # <<>> /\ Head(queue) = c
  /\ MayAdmit
  /\ activeCount' = activeCount + 1
  /\ queue' = Tail(queue)
  /\ rq' = [rq EXCEPT ![c].st = "delay"]
  /\ due' = [due EXCEPT ![c] = now + Delay]
  /\ UNCHANGED <<runVars, requests, faults, returned, served, calls, now,
                 lastDispatch>>

\* What request() sends for request r: the path and the query.
Sent(r) ==
  [kind |-> r.kind, coll |-> r.coll, page |-> r.page, limit |-> r.limit,
   depth |-> r.depth]

\* delay() has elapsed: requestFn() runs and request() sends the request.
Dispatch(c) ==
  /\ rq[c].st = "delay"
  /\ rq' = [rq EXCEPT ![c].st = "flight"]
  /\ requests' = requests (+) SetToBag({Sent(rq[c])})
  /\ due' = [due EXCEPT ![c] = 0]
  /\ lastDispatch' = now
  /\ UNCHANGED <<runVars, activeCount, queue, faults, returned, served, calls,
                 now>>

\* Mutant: a settled function gives every slot back.
ReleaseAll(n) == 0

\* Mutant: a settled function keeps its slot.
ReleaseNever(n) == n

\* The slots in use after an admitted function has settled.
Release(n) == n - 1

\* request() returns or throws: the function settles, p-limit gives the slot
\* back, and the caller's await resumes with the answer.
Settle(c) ==
  /\ rq[c].st = "flight"
  /\ \E a \in Answers(rq[c]) :
       /\ rq' = [rq EXCEPT ![c] = a]
       /\ faults' = IF a.out = "ok" THEN faults ELSE faults + 1
       /\ returned' = returned + a.docs
       /\ served' = IF a.kind = "data" /\ a.limit # 1
                     THEN [served EXCEPT ![a.coll] =
                             Append(@, [page |-> a.page, docs |-> a.docs,
                                        ok |-> a.out = "ok"])]
                     ELSE served
  /\ activeCount' = Release(activeCount)
  /\ UNCHANGED <<runVars, queue, requests, calls, timeVars>>

\* request(): clearTimeout runs as soon as fetch() has resolved, that is when
\* the response headers are in; response.json() and response.text() then read
\* the body with no timer left.  A body that never ends leaves the request
\* unsettled for good.
Stall(c) ==
  /\ rq[c].st = "flight"
  /\ rq' = [rq EXCEPT ![c].st = "stalled"]
  /\ UNCHANGED <<runVars, activeCount, queue, requests, faults, returned,
                 served, calls, timeVars>>

\* ------------------------------------------------------ the file manager
\* FileManager.getBackupDir: path.join(outputDir, env, backupTimestamp).
getBackupDir(e) == <<"backup", e>>
\* backupPath: null.
NullPath == <<>>

\* FileManager.addLog (saveDetailedLogs is true): ensureDir and appendFile.
addLog(f) == [f EXCEPT !.dir = TRUE, !.log = @ + 1]

\* FileManager.saveCollectionData: ensureDir and writeJson of {collection,
\* timestamp, totalRecords, data}.
saveCollectionData(f, coll, data) ==
  [f EXCEPT !.dir = TRUE,
            !.data = [c \in DOMAIN f.data \cup {coll} |->
                        IF c = coll THEN data ELSE f.data[c]]]

\* FileManager.saveCollectionSchema (saveCollectionSchema is true).
saveCollectionSchema(f, coll) ==
  [f EXCEPT !.dir = TRUE, !.schemas = @ \cup {coll}]

\* --------------------------------------------------------- configuration
\* getEnvConfig: throws for an environment that is no key of CONFIG and for
\* one that lacks api_base or api_key.
getEnvConfig(e) ==
  IF e \notin DOMAIN CONFIG THEN "unknown"
  ELSE IF ~CONFIG[e] THEN "missing" ELSE "ok"

\* ------------------------------------------------------ the orchestrator
\* An entry of stats.errors ({collection?, phase, error}; the message is left
\* out).
ErrorEntry(coll, phase) == [collection |-> coll, phase |-> phase]

pushError(st, coll, phase) ==
  [st EXCEPT !.errors = Append(@, ErrorEntry(coll, phase))]

\* Mutant: success looks at failedCollections alone.
getBackupResultByCounter(st, e, fileManager, cols) ==
  [returned |-> TRUE,
   success |-> st.failedCollections = 0,
   environment |-> e,
   backupPath |-> IF fileManager THEN getBackupDir(e) ELSE NullPath,
   collections |->
     [k \in 1..Len(cols) |->
        [name |-> cols[k].name,
         recordCount |-> cols[k].count,
         backupSuccess |->
           ~\E j \in 1..Len(st.errors) : st.errors[j].collection = cols[k].name]]]

\* Mutant: recordCount is the number of documents in the data file.
getBackupResultRetrieved(st, e, fileManager, cols) ==
  [returned |-> TRUE,
   success |-> st.failedCollections = 0 /\ Len(st.errors) = 0,
   environment |-> e,
   backupPath |-> IF fileManager THEN getBackupDir(e) ELSE NullPath,
   collections |->
     [k \in 1..Len(cols) |->
        [name |-> cols[k].name,
         recordCount |-> IF cols[k].name \in DOMAIN fs.data
                         THEN Len(fs.data[cols[k].name]) ELSE 0,
         backupSuccess |->
           ~\E j \in 1..Len(st.errors) : st.errors[j].collection = cols[k].name]]]

\* BackupService.getBackupResult.  statistics is this.stats itself (the same
\* object), so the result's statistics are read from stats.
getBackupResult(st, e, fileManager, cols) ==
  [returned |-> TRUE,
   success |-> st.failedCollections = 0 /\ Len(st.errors) = 0,
   environment |-> e,
   backupPath |-> IF fileManager THEN getBackupDir(e) ELSE NullPath,
   collections |->
     [k \in 1..Len(cols) |->
        [name |-> cols[k].name,
         recordCount |-> cols[k].count,
         backupSuccess |->
           ~\E j \in 1..Len(st.errors) : st.errors[j].collection = cols[k].name]]]

NoResult ==
  [returned |-> FALSE, success |-> FALSE, environment |-> "-",
   backupPath |-> NullPath, collections |-> <<>>]

\* validateConnection: true when getAccess returned, false when it threw
\* (the error is caught).
validateConnection(access) == IF access.out = "ok" THEN "true" ELSE "false"

\* Mutant: the result of validateConnection is not looked at.
afterValidationUnchecked(connected) == "createDir"

\* performBackup: if (!isConnected) throw new Error(...), else it goes on to
\* createBackupStructure.
afterValidation(connected) == IF connected = "true" THEN "createDir" ELSE "catch"

\* discoverCollections' inner catch: the entry pushed to stats.errors.
recordDiscoveryError(st, coll) == pushError(st, coll, "discovery")

\* sampleDoc: null.
NullDoc == <<>>

\* Mutant: the descriptor of a failed request carries no error field.
getCollectionSchemaNoError(data) ==
  IF data.out # "ok" \/ data.docs = 0
  THEN [fields |-> <<>>, totalDocs |-> 0, sampleDoc |-> NullDoc, error |-> FALSE]
  ELSE [fields |-> <<"id">>, totalDocs |-> data.totalDocs,
        sampleDoc |-> PageDocs(1, 1)[1], error |-> FALSE]

\* getCollectionSchema: the descriptor {fields, totalDocs, sampleDoc, error?}
\* it returns for the answer to its limit = 1 request; `error` tells whether
\* the descriptor has an error field.  The request's error is caught.
getCollectionSchema(data) ==
  IF data.out # "ok"
  THEN [fields |-> <<>>, totalDocs |-> 0, sampleDoc |-> NullDoc, error |-> TRUE]
  ELSE IF data.docs = 0
  THEN [fields |-> <<>>, totalDocs |-> 0, sampleDoc |-> NullDoc, error |-> FALSE]
  ELSE [fields |-> <<"id">>, totalDocs |-> data.totalDocs,
        sampleDoc |-> PageDocs(1, 1)[1], error |-> FALSE]

\* Mutant: no collection is skipped.
isEmptyNever(info) == FALSE

\* backupCollection: count === 0, the collection is skipped.
isEmpty(info) == info.count = 0

\* Mutant: the discovered count is added instead of data.length.
recordStatisticsByCount(st, info, data) ==
  [st EXCEPT !.totalRecords = @ + info.count, !.successfulCollections = @ + 1]

\* backupCollection: this.stats.totalRecords += data.length;
\* this.stats.successfulCollections += 1.
recordStatistics(st, info, data) ==
  [st EXCEPT !.totalRecords = @ + Len(data), !.successfulCollections = @ + 1]

\* Mutant: the failure is listed but not counted.
recordFailureUncounted(st, coll) == pushError(st, coll, "backup")

\* Mutant: the failure is counted but not listed.
recordFailureUnlisted(st, coll) == [st EXCEPT !.failedCollections = @ + 1]

\* backupCollection's catch: this.stats.failedCollections += 1 and the entry.
recordFailure(st, coll) ==
  pushError([st EXCEPT !.failedCollections = @ + 1], coll, "backup")

\* Mutant: only the collections with documents are counted.
totalCollectionsWithData(cols) ==
  Cardinality({k \in 1..Len(cols) : cols[k].count > 0})

\* performBackup: this.stats.totalCollections = collections.length.
totalCollections(cols) == Len(cols)

\* Mutant: a page's documents are put before the earlier ones.
unshiftDocs(acc, page, n) == PageDocs(page, n) \o acc

\* getAllCollectionData: allDocs.push(...data.docs).
pushDocs(acc, page, n) == acc \o PageDocs(page, n)

\* The variables no step of performBackup changes.
Frame ==
  UNCHANGED <<env, activeCount, requests, returned, served, calls, timeVars,
              runs>>

\* What only Validated and Counted set.
Kept == UNCHANGED <<isConnected, threw>>

\* One more failure injected, or none.
Fault(failed) == faults' = IF failed THEN faults + 1 ELSE faults

\* performBackup, to the first await: startTime, getEnvConfig, the client and
\* the file manager, and validateConnection's call of getAccess.
performBackup ==
  /\ pc = "init"
  /\ stats' = [stats EXCEPT !.startTime = TRUE]
  /\ IF getEnvConfig(env) = "ok"
     THEN pc' = "validate" /\ limitedRequest(Run, getAccess)
     ELSE pc' = "catch" /\ UNCHANGED <<rq, queue>>
  /\ UNCHANGED <<names, infos, idx, count, allDocs, currentPage, fs, result,
                 faults>>
  /\ Frame /\ Kept

\* validateConnection returns; performBackup throws when it returned false.
Validated ==
  /\ pc = "validate" /\ rq[Run].st = "done"
  /\ isConnected' = validateConnection(rq[Run])
  /\ pc' = afterValidation(isConnected')
  /\ Consumed(Run)
  /\ UNCHANGED <<stats, names, infos, idx, count, threw, allDocs, currentPage,
                 fs, result, faults>>
  /\ Frame

\* fileManager.createBackupStructure, then discoverCollections to its await
\* of client.discoverCollections (a second getAccess).  A failed ensureDir
\* may have made part of the directories.
createBackupStructure ==
  /\ pc = "createDir"
  /\ \E ok \in FsOutcomes :
       /\ Fault(~ok)
       /\ IF ok
          THEN /\ fs' = [fs EXCEPT !.dir = TRUE]
               /\ pc' = "listing"
               /\ limitedRequest(Run, getAccess)
          ELSE /\ \E made \in BOOLEAN : fs' = [fs EXCEPT !.dir = made]
               /\ pc' = "catch"
               /\ UNCHANGED <<rq, queue>>
  /\ UNCHANGED <<stats, names, infos, idx, count, allDocs, currentPage, result>>
  /\ Frame /\ Kept

\* The for-of loop of discoverCollections goes to the next slug, or the
\* function returns collectionInfos.
NextProbe ==
  IF idx < Len(names)
  THEN /\ idx' = idx + 1
       /\ pc' = "count"
       /\ limitedRequest(Run, getCollectionCount(names[idx + 1]))
  ELSE /\ pc' = "discovered"
       /\ Consumed(Run)
       /\ UNCHANGED idx

\* client.discoverCollections returns the keys of access.collections or
\* throws; the orchestrator logs the discovery and starts its loop.
Listed ==
  /\ pc = "listing" /\ rq[Run].st = "done"
  /\ infos' = <<>>
  /\ IF rq[Run].out # "ok"
     THEN /\ pc' = "catch"
          /\ Consumed(Run)
          /\ UNCHANGED <<names, idx, fs, faults>>
     ELSE /\ names' = rq[Run].collections
          /\ \E ok \in FsOutcomes :
               /\ Fault(~ok)
               /\ IF ~ok
                  THEN /\ pc' = "catch"
                       /\ Consumed(Run)
                       /\ UNCHANGED <<idx, fs>>
                  ELSE /\ fs' = addLog(fs)
                       /\ IF names' = <<>>
                          THEN /\ pc' = "discovered"
                               /\ Consumed(Run)
                               /\ UNCHANGED idx
                          ELSE /\ idx' = 1
                               /\ pc' = "count"
                               /\ limitedRequest(Run, getCollectionCount(names'[1]))
  /\ UNCHANGED <<stats, count, allDocs, currentPage, result>>
  /\ Frame /\ Kept

\* getCollectionCount returns or throws; on success getCollectionSchema
\* issues its limit = 1 request.
Counted ==
  /\ pc = "count" /\ rq[Run].st = "done"
  /\ IF rq[Run].out = "ok"
     THEN /\ count' = rq[Run].totalDocs
          /\ pc' = "schema"
          /\ limitedRequest(Run, getCollectionData(names[idx], 1, 1))
          /\ UNCHANGED threw
     ELSE /\ pc' = "probeFailed"
          /\ threw' = threw \cup {names[idx]}
          /\ Consumed(Run)
          /\ UNCHANGED count
  /\ UNCHANGED <<isConnected, stats, names, infos, idx, allDocs, currentPage,
                 fs, result, faults>>
  /\ Frame

\* getCollectionSchema returns; the info is pushed and the analysis logged.
\* A throwing addLog lands in the catch of the loop body.
Sampled ==
  /\ pc = "schema" /\ rq[Run].st = "done"
  /\ infos' = Append(infos, [name |-> names[idx], count |-> count,
                             schema |-> getCollectionSchema(rq[Run])])
  /\ \E ok \in FsOutcomes :
       /\ Fault(~ok)
       /\ IF ok
          THEN fs' = addLog(fs) /\ NextProbe
          ELSE /\ pc' = "probeFailed"
               /\ Consumed(Run)
               /\ UNCHANGED <<fs, idx>>
  /\ UNCHANGED <<stats, names, count, allDocs, currentPage, result>>
  /\ Frame /\ Kept

\* The catch of the loop body: the warning is logged, then the error pushed.
\* A throwing addLog leaves discoverCollections (its outer catch rethrows).
ProbeFailed ==
  /\ pc = "probeFailed"
  /\ \E ok \in FsOutcomes :
       /\ Fault(~ok)
       /\ IF ok
          THEN /\ fs' = addLog(fs)
               /\ stats' = recordDiscoveryError(stats, names[idx])
               /\ NextProbe
          ELSE /\ pc' = "catch"
               /\ UNCHANGED <<fs, stats, idx, rq, queue>>
  /\ UNCHANGED <<names, infos, count, allDocs, currentPage, result>>
  /\ Frame /\ Kept

\* Mutant: the early return carries no backup path.
earlyResultWithoutPath(st, e, cols) == getBackupResult(st, e, FALSE, cols)

\* performBackup: if (collections.length === 0) return
\* this.getBackupResult(env, fileManager, collections).
earlyResult(st, e, cols) == getBackupResult(st, e, TRUE, cols)

\* Mutant: the loop over the collections starts at the last one.
lastCollection == Len(infos)

\* performBackup: for (const collection of collections) starts at the first.
firstCollection == 1

\* discoverCollections has returned: totalCollections, and the early return
\* when there is no collection.
Discovered ==
  /\ pc = "discovered"
  /\ stats' = [stats EXCEPT !.totalCollections = totalCollections(infos)]
  /\ IF Len(infos) = 0
     THEN /\ result' = earlyResult(stats', env, infos)
          /\ pc' = "done"
          /\ UNCHANGED idx
     ELSE /\ idx' = firstCollection
          /\ pc' = "backup"
          /\ UNCHANGED result
  /\ UNCHANGED <<names, infos, count, allDocs, currentPage, fs, rq, queue,
                 faults>>
  /\ Frame /\ Kept

\* The for-of loop of performBackup goes to the next info, or the report.
NextBackup ==
  IF idx < Len(infos)
  THEN idx' = idx + 1 /\ pc' = "backup"
  ELSE pc' = "report" /\ UNCHANGED idx

\* backupCollection, to its first await: the skip of an empty collection, or
\* getAllCollectionData's request of page 1.
backupCollection ==
  /\ pc = "backup"
  /\ IF isEmpty(infos[idx])
     THEN /\ NextBackup
          /\ UNCHANGED <<allDocs, currentPage, rq, queue>>
     ELSE /\ allDocs' = <<>>
          /\ currentPage' = 1
          /\ pc' = "page"
          /\ limitedRequest(Run, getCollectionData(infos[idx].name, 1, BatchSize))
          /\ UNCHANGED idx
  /\ UNCHANGED <<stats, names, infos, count, fs, result, faults>>
  /\ Frame /\ Kept

\* Mutant: the error of a page request leaves getAllCollectionData.
afterPageErrorThrown == "backupFailed"

\* getAllCollectionData: what is left of the loop after a page request threw:
\* hasNextPage = false, and allDocs is returned.
afterPageError == "save"

\* getAllCollectionData: one turn of the loop, on the answer to page
\* currentPage.
getAllCollectionData ==
  /\ pc = "page" /\ rq[Run].st = "done"
  /\ IF rq[Run].out # "ok"
     THEN /\ pc' = afterPageError
          /\ Consumed(Run)
          /\ UNCHANGED <<allDocs, currentPage>>
     ELSE IF rq[Run].docs > 0
     THEN /\ allDocs' = pushDocs(allDocs, currentPage, rq[Run].docs)
          /\ currentPage' = currentPage + 1
          /\ IF hasNextPage(rq[Run], currentPage)
             THEN /\ pc' = "page"
                  /\ limitedRequest(Run, getCollectionData(infos[idx].name,
                                                           currentPage + 1, BatchSize))
             ELSE /\ pc' = "save"
                  /\ Consumed(Run)
     ELSE /\ pc' = "save"
          /\ Consumed(Run)
          /\ UNCHANGED <<allDocs, currentPage>>
  /\ UNCHANGED <<stats, names, infos, idx, count, fs, result, faults>>
  /\ Frame /\ Kept

\* backupCollection: fileManager.saveCollectionData(env, collection, data).
\* A failed write leaves no file.
SaveData ==
  /\ pc = "save"
  /\ \E ok \in FsOutcomes :
       /\ Fault(~ok)
       /\ IF ok
          THEN /\ fs' = saveCollectionData(fs, infos[idx].name, allDocs)
               /\ pc' = "saveSchema"
          ELSE /\ pc' = "backupFailed"
               /\ UNCHANGED fs
  /\ UNCHANGED <<stats, names, infos, idx, count, allDocs, currentPage, result,
                 rq, queue>>
  /\ Frame /\ Kept

\* backupCollection: saveCollectionSchema, the statistics, and the log of
\* the success; a throw of either file operation lands in the catch.
SaveSchema ==
  /\ pc = "saveSchema"
  /\ \E ok \in FsOutcomes :
       IF ~ok
       THEN /\ Fault(TRUE)
            /\ pc' = "backupFailed"
            /\ UNCHANGED <<fs, stats, idx>>
       ELSE /\ stats' = recordStatistics(stats, infos[idx], allDocs)
            /\ \E logged \in FsOutcomes :
                 /\ Fault(~logged)
                 /\ IF logged
                    THEN /\ fs' = addLog(saveCollectionSchema(fs, infos[idx].name))
                         /\ NextBackup
                    ELSE /\ fs' = saveCollectionSchema(fs, infos[idx].name)
                         /\ pc' = "backupFailed"
                         /\ UNCHANGED idx
  /\ UNCHANGED <<names, infos, count, allDocs, currentPage, result, rq, queue>>
  /\ Frame /\ Kept

\* backupCollection's catch: the failure is recorded and logged, and false is
\* returned; a throwing addLog leaves backupCollection.
BackupFailed ==
  /\ pc = "backupFailed"
  /\ stats' = recordFailure(stats, infos[idx].name)
  /\ \E ok \in FsOutcomes :
       /\ Fault(~ok)
       /\ IF ok
          THEN fs' = addLog(fs) /\ NextBackup
          ELSE pc' = "catch" /\ UNCHANGED <<fs, idx>>
  /\ UNCHANGED <<names, infos, count, allDocs, currentPage, result, rq, queue>>
  /\ Frame /\ Kept

\* generateFinalReport: endTime, saveMetadata, generateSummary, and the
\* result.
generateFinalReport ==
  /\ pc = "report"
  /\ stats' = [stats EXCEPT !.endTime = TRUE]
  /\ \E meta \in FsOutcomes :
       IF ~meta
       THEN /\ Fault(TRUE)
            /\ pc' = "catch"
            /\ UNCHANGED <<fs, result>>
       ELSE \E summary \in FsOutcomes :
              /\ Fault(~summary)
              /\ IF summary
                 THEN /\ fs' = [fs EXCEPT !.dir = TRUE, !.metadata = TRUE,
                                          !.summary = TRUE]
                      /\ result' = getBackupResult(stats', env, TRUE, infos)
                      /\ pc' = "done"
                 ELSE /\ fs' = [fs EXCEPT !.dir = TRUE, !.metadata = TRUE]
                      /\ pc' = "catch"
                      /\ UNCHANGED result
  /\ UNCHANGED <<names, infos, idx, count, allDocs, currentPage, rq, queue>>
  /\ Frame /\ Kept

\* Mutant: the top-level handler rethrows.
catchTargetRethrow == "thrown"

\* performBackup's catch: the general error, and the result without a path.
\* Nothing in it throws, so the error goes no further.
catchTarget == "done"

CatchGeneral ==
  /\ pc = "catch"
  /\ stats' = pushError(stats, NoCollection, "general")
  /\ result' = IF catchTarget = "done"
               THEN getBackupResult(stats', env, FALSE, <<>>)
               ELSE result
  /\ pc' = catchTarget
  /\ UNCHANGED <<names, infos, idx, count, allDocs, currentPage, fs, rq, queue,
                 faults>>
  /\ Frame /\ Kept

\* ---------------------------------------------------------- a run
InitStats ==
  [startTime |-> FALSE, endTime |-> FALSE, totalCollections |-> 0,
   totalRecords |-> 0, successfulCollections |-> 0, failedCollections |-> 0,
   errors |-> <<>>]

InitFs ==
  [dir |-> FALSE, data |-> [c \in {} |-> <<>>], schemas |-> {},
   metadata |-> FALSE, summary |-> FALSE, log |-> 0]

\* A fresh BackupService, and performBackup(env) about to be called.
Init ==
  /\ pc = "init"
  /\ env \in Envs
  /\ isConnected = "undefined"
  /\ threw = {}
  /\ stats = InitStats
  /\ names = <<>>
  /\ infos = <<>>
  /\ idx = 0
  /\ count = 0
  /\ allDocs = <<>>
  /\ currentPage = 0
  /\ fs = InitFs
  /\ result = NoResult
  /\ activeCount = 0
  /\ queue = <<>>
  /\ rq = [c \in Callers |-> IdleReq]
  /\ requests = EmptyBag
  /\ faults = 0
  /\ returned = 0
  /\ served = [c \in Collections |-> <<>>]
  /\ calls = 0
  /\ now = 0
  /\ due = [c \in Callers |-> 0]
  /\ lastDispatch = Never
  /\ runs = 1

Next ==
  \/ performBackup
  \/ Validated
  \/ createBackupStructure
  \/ Listed
  \/ Counted
  \/ Sampled
  \/ ProbeFailed
  \/ Discovered
  \/ backupCollection
  \/ getAllCollectionData
  \/ SaveData
  \/ SaveSchema
  \/ BackupFailed
  \/ generateFinalReport
  \/ CatchGeneral
  \/ Admit(Run)
  \/ Dispatch(Run)
  \/ Settle(Run)
  \/ Stall(Run)

Spec == Init /\ [][Next]_vars

\* ------------------------------------ a second call on the same instance
\* performBackup called again on the BackupService whose call has returned,
\* to the first await.  The client, the file manager and the locals are new;
\* this.stats is the object the constructor made, and only its startTime is
\* assigned.
performBackupAgain ==
  /\ pc = "done"
  /\ runs < MaxRuns
  /\ runs' = runs + 1
  /\ stats' = [stats EXCEPT !.startTime = TRUE]
  /\ isConnected' = "undefined"
  /\ threw' = {}
  /\ names' = <<>>
  /\ infos' = <<>>
  /\ idx' = 0
  /\ count' = 0
  /\ allDocs' = <<>>
  /\ currentPage' = 0
  /\ fs' = InitFs
  /\ result' = NoResult
  /\ activeCount' = 0
  /\ requests' = EmptyBag
  /\ served' = [c \in Collections |-> <<>>]
  /\ IF getEnvConfig(env) = "ok"
     THEN /\ pc' = "validate"
          /\ rq' = [c \in Callers |-> IF c = Run THEN getAccess ELSE IdleReq]
          /\ queue' = <<Run>>
     ELSE /\ pc' = "catch"
          /\ rq' = [c \in Callers |-> IdleReq]
          /\ queue' = <<>>
  /\ UNCHANGED <<env, faults, returned, calls, timeVars>>

NextAgain ==
  \/ Next
  \/ performBackupAgain

SpecAgain == Init /\ [][NextAgain]_vars

\* ------------------------------------------- free callers of one client
\* The request-issuing operations a caller of the client may invoke.
ClientCalls ==
  {getAccess, getCollectionCount("users"),
   getCollectionData("users", 1, BatchSize)}

\* A caller invokes a client operation: its request goes to the gate.
Call(c) ==
  /\ pc = "off"
  /\ rq[c].st = "idle"
  /\ calls < MaxCalls
  /\ calls' = calls + 1
  /\ \E r \in ClientCalls : limitedRequest(c, r)
  /\ UNCHANGED <<runVars, activeCount, requests, faults, returned, served,
                 timeVars>>

\* The caller's await resumes: the operation has returned or thrown.
Return(c) ==
  /\ pc = "off"
  /\ rq[c].st = "done"
  /\ Consumed(c)
  /\ UNCHANGED <<runVars, activeCount, requests, faults, returned, served,
                 calls, timeVars>>

\* One client, no run of performBackup, and NCallers callers.
InitGate ==
  /\ pc = "off"
  /\ env = "test"
  /\ isConnected = "undefined"
  /\ threw = {}
  /\ stats = InitStats
  /\ names = <<>>
  /\ infos = <<>>
  /\ idx = 0
  /\ count = 0
  /\ allDocs = <<>>
  /\ currentPage = 0
  /\ fs = InitFs
  /\ result = NoResult
  /\ activeCount = 0
  /\ queue = <<>>
  /\ rq = [c \in Callers |-> IdleReq]
  /\ requests = EmptyBag
  /\ faults = 0
  /\ returned = 0
  /\ served = [c \in Collections |-> <<>>]
  /\ calls = 0
  /\ now = 0
  /\ due = [c \in Callers |-> 0]
  /\ lastDispatch = Never
  /\ runs = 1

NextGate ==
  \E c \in 1..NCallers :
    \/ Call(c)
    \/ Admit(c)
    \/ Dispatch(c)
    \/ Settle(c)
    \/ Stall(c)
    \/ Return(c)

SpecGate == InitGate /\ [][NextGate]_vars

\* --------------------------- the gate when every request completes
\* The callers of one client when every admitted request completes (no body
\* stalls): the event loop runs every continuation that is ready, so a free
\* slot is taken by the head of the queue, a delay elapses, and a request in
\* flight gets its answer, its error or its timeout.
NextComplete ==
  \E c \in 1..NCallers :
    \/ Call(c)
    \/ Admit(c)
    \/ Dispatch(c)
    \/ Settle(c)
    \/ Return(c)

FairGate ==
  /\ InitGate /\ [][NextComplete]_vars
  /\ \A c \in 1..NCallers :
       WF_vars(Admit(c)) /\ WF_vars(Dispatch(c)) /\ WF_vars(Settle(c))

\* ------------------------------------------------- the gate with a clock
\* The timer of delay() fires: setTimeout(resolve, RATE_LIMIT_CONFIG.delay)
\* resolves when the clock has reached the instant it was set for.
TimedDispatch(c) ==
  /\ now >= due[c]
  /\ Dispatch(c)

\* Time passes by one tick; it does not pass a timer that is due.
Tick ==
  /\ pc = "off"
  /\ now < MaxTime
  /\ \A c \in Callers : rq[c].st = "delay" => now < due[c]
  /\ now' = now + 1
  /\ UNCHANGED <<runVars, activeCount, queue, rq, requests, faults, returned,
                 served, calls, due, lastDispatch>>

NextTimed ==
  \/ Tick
  \/ \E c \in 1..NCallers :
       \/ Call(c)
       \/ Admit(c)
       \/ TimedDispatch(c)
       \/ Settle(c)
       \/ Return(c)

SpecTimed == InitGate /\ [][NextTimed]_vars

\* ================================================================ claims
\* The callers whose request the gate has admitted: waiting their delay or in
\* flight.
Admitted == {c \in Callers : rq[c].st \in {"delay", "flight", "stalled"}}

\* The page requests (getAllCollectionData's) sent for collection n.
PageRequests(n) ==
  {r \in BagToSet(requests) : r.kind = "data" /\ r.coll = n /\ r.limit # 1}

\* Whether the run's pending request is a page request for collection n.
PagePending(n) ==
  /\ rq[Run].st \in {"queued", "delay", "flight", "stalled"}
  /\ rq[Run].kind = "data" /\ rq[Run].coll = n /\ rq[Run].limit # 1

InfoNames == [k \in 1..Len(infos) |-> infos[k].name]

\* The documents of the answered pages sv, in the order of the answers.
RECURSIVE DocsOf(_)
DocsOf(sv) ==
  IF sv = <<>> THEN <<>>
  ELSE (IF Head(sv).ok THEN PageDocs(Head(sv).page, Head(sv).docs) ELSE <<>>)
       \o DocsOf(Tail(sv))

\* The places in served[n] of the page requests that failed.
FailedAt(n) == {k \in 1..Len(served[n]) : ~served[n][k].ok}

\* backupCollection has just returned true or false.
BackupReturned == pc \in {"backup", "report"}

\* C1: with any number of callers of getAccess, getCollectionCount and
\* getCollectionData on one client, the requests the gate has admitted
\* (waiting their delay or in flight) never outnumber the concurrency limit.
C1_GateBound == Cardinality(Admitted) <= Concurrency

C1_GateFull == Cardinality(Admitted) = Concurrency /\ queue # <<>>

\* C2: in every result performBackup returns, success is true if and only if
\* failedCollections is 0 and errors is empty.
C2_SuccessIff ==
  result.returned =>
    (result.success <=> (stats.failedCollections = 0 /\ Len(stats.errors) = 0))

C2_MixedOutcomes ==
  /\ result.returned /\ ~result.success
  /\ stats.successfulCollections > 0 /\ stats.failedCollections > 0
  /\ \E k \in 1..Len(infos) : infos[k].count = 0

\* C3: every invocation of performBackup returns a result and no exception
\* escapes it, whatever the remote API and the file system do: as long as the
\* result has not been returned, the run has a step to take, and it never
\* ends by throwing.
C3_AlwaysReturns == (result.returned \/ ENABLED Next) /\ pc # "thrown"

\* C4: when validateConnection's access call fails, validateConnection
\* returns false, and the run ends with success false and backupPath null,
\* having created no directory and sent no request but that one.
C4_ConnectionGate ==
  isConnected = "false" =>
    /\ pc \in {"catch", "done"}
    /\ fs = InitFs
    /\ BagToSet(requests) = {Sent(getAccess)} /\ BagCardinality(requests) = 1
    /\ rq[Run].st = "idle" /\ queue = <<>>
    /\ result.returned => (~result.success /\ result.backupPath = NullPath)

C4_ConnectionFailed == result.returned /\ isConnected = "false"

\* C5: for a collection whose count is 0, backupCollection returns true
\* without changing the statistics or the errors, writing a file or issuing
\* a request; no page request is ever sent for it and it gets no data file
\* and no schema file.
C5_SkipEmpty ==
  /\ [][(pc = "backup" /\ infos[idx].count = 0) =>
          /\ BackupReturned'
          /\ stats' = stats /\ fs' = fs /\ requests' = requests
          /\ rq' = rq /\ queue' = queue]_vars
  /\ [](\A k \in 1..Len(infos) :
          infos[k].count = 0 =>
            /\ PageRequests(infos[k].name) = {}
            /\ ~PagePending(infos[k].name)
            /\ infos[k].name \notin DOMAIN fs.data
            /\ infos[k].name \notin fs.schemas)

C5_EmptySkipped ==
  /\ result.returned /\ result.success
  /\ stats.successfulCollections > 0
  /\ \E k \in 1..Len(infos) : infos[k].count = 0

\* C6: when backupCollection completes successfully for a collection with
\* count > 0, totalRecords has grown by the number of documents
\* getAllCollectionData returned and successfulCollections by 1, and
\* failedCollections and errors are as before the call.
C6_RecordsCounted ==
  /\ [][(pc = "saveSchema" /\ BackupReturned') =>
          /\ infos[idx].count > 0
          /\ stats'.totalRecords = stats.totalRecords + Len(allDocs)
          /\ stats'.successfulCollections = stats.successfulCollections + 1
          /\ stats'.failedCollections = stats.failedCollections
          /\ stats'.errors = stats.errors]_vars
  /\ [][(pc \in {"page", "save"}) => stats' = stats]_vars
  /\ [][(pc = "backup" /\ ~BackupReturned') => stats' = stats]_vars

C6_CountDiffers ==
  /\ BackupReturned /\ Len(infos) = 1 /\ infos[1].count = 1
  /\ stats.successfulCollections = 1 /\ stats.totalRecords = 2
  /\ stats.failedCollections = 0

\* C7: when discoverCollections returns and exactly one of the N slugs threw
\* in its count or schema probe, the infos are those of the other N-1 slugs
\* in their order, and stats.errors holds one entry, of phase "discovery" and
\* with that slug.
C7_OneProbeThrows ==
  (pc = "discovered" /\ Cardinality(threw) = 1) =>
    LET n == CHOOSE x \in threw : TRUE
    IN  /\ Len(infos) = Len(names) - 1
        /\ InfoNames = SelectNames(names, Range(names) \ {n})
        /\ stats.errors = <<ErrorEntry(n, "discovery")>>

\* C8: no page request is sent and no data or schema file is written for a
\* collection that has an entry of phase "discovery" in stats.errors.
C8_DiscoveryErrorExcluded ==
  \A j \in 1..Len(stats.errors) :
    stats.errors[j].phase = "discovery" =>
      /\ PageRequests(stats.errors[j].collection) = {}
      /\ ~PagePending(stats.errors[j].collection)
      /\ stats.errors[j].collection \notin DOMAIN fs.data
      /\ stats.errors[j].collection \notin fs.schemas

\* C9: when fetching or persisting a collection throws, backupCollection
\* appends one entry of phase "backup" with its slug, adds 1 to
\* failedCollections, returns false, and performBackup goes on with the next
\* collection (or the report after the last).
C9_FailureIsolated ==
  [][(pc = "backupFailed" /\ infos[idx].name \notin fs.schemas) =>
       /\ stats'.errors = Append(stats.errors, ErrorEntry(infos[idx].name, "backup"))
       /\ stats'.failedCollections = stats.failedCollections + 1
       /\ IF idx < Len(infos)
          THEN pc' = "backup" /\ idx' = idx + 1
          ELSE pc' = "report"]_vars

\* C10: when the request of page k fails in getAllCollectionData, no further
\* page is requested, the operation returns (nothing is thrown and nothing
\* recorded) the documents of pages 1..k-1 in order, which is what the data
\* file then holds, and the collection whose backup then completes is counted
\* in successfulCollections and not in failedCollections.
C10_PartialRetrieval ==
  /\ [](\A n \in Collections : \A k \in FailedAt(n) :
          /\ k = Len(served[n])
          /\ \A j \in 1..k : served[n][j].page = j
          /\ \A j \in 1..(k - 1) : served[n][j].docs > 0
          /\ \A r \in PageRequests(n) : r.page <= k /\ CopiesIn(r, requests) = 1
          /\ ~PagePending(n)
          /\ n \in DOMAIN fs.data => fs.data[n] = DocsOf(SubSeq(served[n], 1, k - 1)))
  /\ [][(pc = "page" /\ rq[Run].st = "done" /\ rq[Run].out # "ok") =>
          /\ pc' = "save"
          /\ allDocs' = allDocs
          /\ allDocs = DocsOf(served[infos[idx].name])
          /\ stats' = stats]_vars
  /\ [][(pc = "saveSchema" /\ BackupReturned' /\ FailedAt(infos[idx].name) # {}) =>
          /\ stats'.successfulCollections = stats.successfulCollections + 1
          /\ stats'.failedCollections = stats.failedCollections
          /\ stats'.totalRecords =
               stats.totalRecords + Len(DocsOf(served[infos[idx].name]))]_vars

C10_ThirdPageFailed ==
  /\ result.returned
  /\ \E n \in Collections :
       /\ Len(served[n]) = 3 /\ ~served[n][3].ok
       /\ n \in DOMAIN fs.data /\ Len(fs.data[n]) = 2
  /\ stats.successfulCollections = 1 /\ stats.failedCollections = 0

\* C11: a failure other than a failed connection check or a failed
\* configuration resolution (of the collection listing call, of the backup
\* directory creation, of a log append, of the metadata or summary
\* persistence) does not end the run: performBackup's top-level handler is
\* entered only from the configuration resolution or the connection check.
C11_OtherFailuresIsolated ==
  [][(pc' = "catch" /\ pc # "catch") => pc \in {"init", "validate"}]_vars

\* C12: when an exception reaches performBackup's top-level handler, one
\* entry of phase "general" without a collection is appended to stats.errors,
\* nothing else is done (no file, no request), and the result returned has
\* success false, backupPath null and no collections; a failed configuration
\* resolution gets there before any request is issued.
C12_GeneralError ==
  /\ [][pc = "catch" =>
          /\ stats'.errors = Append(stats.errors, ErrorEntry(NoCollection, "general"))
          /\ pc' = "done"
          /\ result' = [returned |-> TRUE, success |-> FALSE, environment |-> env,
                        backupPath |-> NullPath, collections |-> <<>>]
          /\ fs' = fs /\ requests' = requests
          /\ rq' = rq /\ queue' = queue]_vars
  /\ [](getEnvConfig(env) # "ok" =>
          /\ requests = EmptyBag /\ rq[Run].st = "idle" /\ queue = <<>>
          /\ fs = InitFs
          /\ result.returned =>
               stats.errors = <<ErrorEntry(NoCollection, "general")>>)
  /\ [](pc = "done" =>
          /\ rq[Run].st = "idle" /\ queue = <<>>
          /\ Cardinality({j \in 1..Len(stats.errors) :
                            stats.errors[j].phase = "general"})
               = IF result.backupPath = NullPath THEN 1 ELSE 0)

C12_ConfigFailed ==
  /\ result.returned /\ env = "prod"
  /\ stats.errors = <<ErrorEntry(NoCollection, "general")>>
  /\ ~result.success /\ result.backupPath = NullPath

\* The documents in the data files of the collections S, altogether.
RECURSIVE SumRecords(_)
SumRecords(S) ==
  IF S = {} THEN 0
  ELSE LET n == CHOOSE x \in S : TRUE
       IN  Len(fs.data[n]) + SumRecords(S \ {n})

\* performBackup is in its backup phase or its report.
InBackupPhase ==
  pc \in {"backup", "page", "save", "saveSchema", "backupFailed", "report"}

\* C13: in a run that reaches the backup phase, totalCollections is the
\* number of collections discovery returned, the empty ones included, while
\* successfulCollections counts the collections with count > 0 that were
\* backed up (data and schema written) and totalRecords sums the documents
\* retrieved for these.
C13_Totals ==
  /\ (InBackupPhase \/ (result.returned /\ result.backupPath # NullPath)) =>
       stats.totalCollections = Len(infos)
  /\ stats.successfulCollections = Cardinality(fs.schemas)
  /\ \A n \in fs.schemas :
       /\ n \in DOMAIN fs.data
       /\ \E k \in 1..Len(infos) : infos[k].name = n /\ infos[k].count > 0
  /\ stats.totalRecords = SumRecords(fs.schemas)

C13_UsersTwoPostsNone ==
  /\ result.returned /\ result.success
  /\ InfoNames = <<"users", "posts">>
  /\ infos[1].count > 0 /\ infos[2].count = 0
  /\ fs.data = [n \in {"users"} |-> PageDocs(1, 1) \o PageDocs(2, 1)]
  /\ stats.totalCollections = 2 /\ stats.totalRecords = 2
  /\ stats.successfulCollections = 1

\* C14: a collection whose count probe or schema probe failed during
\* discovery is not among the collections handed to the backup phase, and
\* once discovery has gone on its failure is an entry of stats.errors.
C14_ProbeFailureExcludes ==
  /\ \A k \in 1..Len(infos) :
       /\ ~infos[k].schema.error
       /\ infos[k].name \notin threw
  /\ (InBackupPhase \/ pc = "discovered") =>
       \A n \in threw :
         \E j \in 1..Len(stats.errors) :
           stats.errors[j] = ErrorEntry(n, "discovery")

\* The descriptor of a collection without a sample document.
EmptyDescriptor(withError) ==
  [fields |-> <<>>, totalDocs |-> 0, sampleDoc |-> NullDoc, error |-> withError]

\* C15: getCollectionSchema never throws: whatever the answer to its
\* single-document request, the collection's info is pushed with a
\* descriptor; for a failed request the descriptor has no fields, totalDocs
\* 0, no sample document and an error field, for a successful request
\* without documents the same descriptor without the error field.
C15_SchemaNeverThrows ==
  [][(pc = "schema" /\ rq[Run].st = "done") =>
       /\ Len(infos') = Len(infos) + 1
       /\ SubSeq(infos', 1, Len(infos)) = infos
       /\ LET info == infos'[Len(infos')]
          IN  /\ info.name = names[idx]
              /\ rq[Run].out # "ok" => info.schema = EmptyDescriptor(TRUE)
              /\ (rq[Run].out = "ok" /\ rq[Run].docs = 0) =>
                   info.schema = EmptyDescriptor(FALSE)
              /\ (rq[Run].out = "ok" /\ rq[Run].docs > 0) =>
                   (~info.schema.error /\ info.schema.sampleDoc # NullDoc)]_vars

C15_ErrorAndEmptyDescriptors ==
  /\ pc = "discovered" /\ Len(infos) = 2
  /\ infos[1].schema = EmptyDescriptor(TRUE)
  /\ infos[2].schema = EmptyDescriptor(FALSE)

\* C16: every dispatched request has its own timeout: as long as it has not
\* settled it can still be settled (by its answer or by its timer), and a
\* request that times out fails as the request it was (its path) without
\* changing any other caller's request.
C16_OwnTimeout ==
  /\ [](\A c \in 1..NCallers :
          rq[c].st \in {"flight", "stalled"} => ENABLED Settle(c))
  /\ [][\A c \in 1..NCallers :
          (rq[c].st = "flight" /\ rq'[c].st = "done" /\ rq'[c].out = "timeout") =>
            /\ Sent(rq'[c]) = Sent(rq[c])
            /\ \A d \in Callers \ {c} : rq'[d] = rq[d]]_vars

\* The count requests and the schema (limit = 1) requests sent for
\* collection n.
CountRequests(n) ==
  {r \in BagToSet(requests) : r.kind = "count" /\ r.coll = n}

SchemaRequests(n) ==
  {r \in BagToSet(requests) : r.kind = "data" /\ r.coll = n /\ r.limit = 1}

\* The requests S were sent once altogether.
SentOnce(S) ==
  Cardinality(S) = 1 /\ \A r \in S : CopiesIn(r, requests) = 1

\* The run awaits a request of the given kind for collection n.
Pending(kind, n) ==
  /\ rq[Run].st \in {"queued", "delay", "flight", "stalled"}
  /\ rq[Run].kind = kind /\ rq[Run].coll = n

\* The schema request of collection n has failed.
SchemaFailed(n) ==
  \/ \E k \in 1..Len(infos) : infos[k].name = n /\ infos[k].schema.error
  \/ /\ pc = "schema" /\ names[idx] = n
     /\ rq[Run].st = "done" /\ rq[Run].out # "ok"

C18_NoCollections ==
  /\ [][(/\ pc = "listing" /\ rq[Run].st = "done"
         /\ rq[Run].out = "ok" /\ rq[Run].collections = <<>>) =>
          /\ pc' = "discovered"
          /\ names' = <<>> /\ infos' = <<>>
          /\ stats' = stats]_vars
  /\ [][(pc = "discovered" /\ names = <<>>) =>
          /\ pc' = "done"
          /\ result'.returned /\ result'.success
          /\ result'.backupPath # NullPath
          /\ stats'.totalCollections = 0 /\ stats'.errors = <<>>]_vars

\* The page request of collection n has been sent and is not answered.
PageOutstanding(n) ==
  PagePending(n) /\ rq[Run].st \in {"flight", "stalled"}

\* The answers to the page requests of collection n that
\* getAllCollectionData has taken in.
TakenIn(n) ==
  IF pc = "page" /\ infos[idx].name = n /\ rq[Run].st = "done"
  THEN SubSeq(served[n], 1, Len(served[n]) - 1)
  ELSE served[n]

\* C19: getAllCollectionData requests the pages 1, 2, 3, ... of a collection
\* one after another: page k + 1 is requested only when the answer to page k
\* is in, so at most one page request of a collection is outstanding; what it
\* has accumulated, returns and what the data file holds is the
\* concatenation of the pages' documents in page order.
C19_SequentialPages ==
  \A n \in Collections :
    /\ \A j \in 1..Len(served[n]) : served[n][j].page = j
    /\ {r.page : r \in PageRequests(n)} =
         1..(Len(served[n]) + IF PageOutstanding(n) THEN 1 ELSE 0)
    /\ \A r \in PageRequests(n) : CopiesIn(r, requests) = 1
    /\ PagePending(n) =>
         /\ pc = "page" /\ infos[idx].name = n
         /\ rq[Run].page = Len(served[n]) + 1
         /\ rq[Run].page = currentPage
    /\ (pc \in {"page", "save"} /\ infos[idx].name = n) =>
         allDocs = DocsOf(TakenIn(n))
    /\ n \in DOMAIN fs.data => fs.data[n] = DocsOf(served[n])

C19_TwoPagesThenEmpty ==
  /\ pc = "saveSchema"
  /\ \E n \in Collections :
       /\ Len(served[n]) = 3
       /\ served[n][3].ok /\ served[n][3].docs = 0
       /\ n \in DOMAIN fs.data
       /\ fs.data[n] = PageDocs(1, 1) \o PageDocs(2, 1)

\* The answer getAllCollectionData is about to take in is a last page: it
\* has no documents, or neither hasNextPage is true nor nextPage is beyond it.
LastPageIn ==
  /\ pc = "page" /\ rq[Run].st = "done" /\ rq[Run].out = "ok"
  /\ \/ rq[Run].docs = 0
     \/ ~(rq[Run].hasNextPage \/ rq[Run].nextPage > rq[Run].page)

\* C20: getAllCollectionData stops at the first page k that has no documents
\* or for which neither hasNextPage is true nor nextPage > k: on that answer
\* the loop ends with the documents of page k included and without a
\* further request, and once it has ended no page beyond the answered ones
\* is requested for the collection.
C20_StopsAtLastPage ==
  /\ [][LastPageIn =>
          /\ pc' = "save"
          /\ allDocs' = allDocs \o PageDocs(rq[Run].page, rq[Run].docs)
          /\ rq'[Run].st = "idle" /\ queue' = queue
          /\ requests' = requests]_vars
  /\ [](\A n \in Collections :
          ~(pc = "page" /\ infos[idx].name = n) =>
            /\ ~PagePending(n)
            /\ \A r \in PageRequests(n) : r.page <= Len(served[n]))

C20_StoppedByCursor ==
  /\ pc = "save"
  /\ Len(served[infos[idx].name]) = 2
  /\ served[infos[idx].name][2].ok /\ served[infos[idx].name][2].docs = 1
  /\ allDocs = PageDocs(1, 1) \o PageDocs(2, 1)

\* C21: every request waits the delay D between its admission by the gate
\* and its dispatch, and request starts are serialized: no request is
\* dispatched less than D after the dispatch before it, so no two requests of
\* one client are dispatched at the same instant.
C21_DelaySerializes ==
  [][\A c \in 1..NCallers :
       (rq[c].st = "delay" /\ rq'[c].st = "flight") =>
         /\ due[c] > 0 /\ now >= due[c]
         /\ lastDispatch = Never \/ now >= lastDispatch + Delay]_vars

\* The run awaits a count or schema probe, or has sent one.
ProbePending ==
  /\ rq[Run].st \in {"queued", "delay", "flight", "stalled"}
  /\ rq[Run].kind = "count" \/ (rq[Run].kind = "data" /\ rq[Run].limit = 1)

ProbeRequests ==
  {r \in BagToSet(requests) :
     r.kind = "count" \/ (r.kind = "data" /\ r.limit = 1)}

\* The data retrieval of some collection has started.
RetrievalStarted ==
  \E n \in Collections : PageRequests(n) # {} \/ PagePending(n)

\* backupCollection has returned for the k-th collection, or has recorded its
\* failure.
Processed(k) ==
  \/ infos[k].count = 0
  \/ infos[k].name \in fs.schemas
  \/ \E j \in 1..Len(stats.errors) :
       stats.errors[j] = ErrorEntry(infos[k].name, "backup")

\* The backup of the k-th collection has left a trace.
Touched(k) ==
  \/ PageRequests(infos[k].name) # {} \/ PagePending(infos[k].name)
  \/ infos[k].name \in DOMAIN fs.data
  \/ \E j \in 1..Len(stats.errors) :
       stats.errors[j] = ErrorEntry(infos[k].name, "backup")

\* C22: the phases of a run occur in the order validate, discover, back up,
\* report: probes are issued only after the connection check has succeeded;
\* data retrieval starts only when the probes of all collections are over;
\* metadata and summary are written only when backupCollection has returned
\* for every discovered collection; and the collections are probed and backed
\* up one at a time in the order of discovery.
C22_PhaseOrder ==
  /\ (ProbeRequests # {} \/ ProbePending) => isConnected = "true"
  /\ RetrievalStarted =>
       /\ ~ProbePending
       /\ pc \notin {"init", "validate", "createDir", "listing", "count",
                     "schema", "probeFailed", "discovered"}
       /\ \A m \in Range(names) : m \in Range(InfoNames) \cup threw
  /\ (fs.metadata \/ fs.summary) =>
       /\ \A k \in 1..Len(infos) : Processed(k)
       /\ rq[Run].st = "idle"
  /\ InfoNames = SelectNames(names, Range(InfoNames))
  /\ pc \in {"count", "schema", "probeFailed"} =>
       Range(InfoNames) \subseteq {names[k] : k \in 1..idx}
  /\ InBackupPhase =>
       \A k \in 1..Len(infos) :
         /\ k < idx => Processed(k)
         /\ k > idx => ~Touched(k)

C22_TwoBackedUpInOrder ==
  /\ result.returned /\ fs.metadata /\ fs.summary
  /\ InfoNames = <<"users", "posts">>
  /\ fs.schemas = {"users", "posts"}

\* C23: the configured depth (BACKUP_CONFIG.depth) is the depth sent on
\* every data query: each page request of getAllCollectionData and the
\* sample request of getCollectionSchema carries it.
C23_ConfiguredDepthSent ==
  \A r \in BagToSet(requests) : r.kind = "data" => r.depth = BackupDepth

\* C24: the discovered count is not reconciled with the retrieval: in the
\* result each collection's recordCount is the count of its discovery
\* (which the backup phase leaves as it is), while totalRecords is the sum of
\* the documents actually retrieved and saved.
C24_CountNotReconciled ==
  /\ [](result.returned =>
          /\ Len(result.collections) =
               IF result.backupPath = NullPath THEN 0 ELSE Len(infos)
          /\ \A k \in 1..Len(result.collections) :
               /\ result.collections[k].name = infos[k].name
               /\ result.collections[k].recordCount = infos[k].count
          /\ stats.totalRecords = SumRecords(fs.schemas))
  /\ [][InBackupPhase => infos' = infos]_vars

C24_CountsDiverge ==
  /\ result.returned /\ Len(result.collections) = 1
  /\ result.collections[1].recordCount = 1
  /\ stats.totalRecords = 2
  /\ Len(fs.data[result.collections[1].name]) = 2

\* C25: during a run of performBackup at most one request of the client is
\* queued, admitted or in flight at any instant (every client call is
\* awaited before the next is issued), so the gate never reaches its
\* concurrency limit.
C25_OneAtATime ==
  /\ activeCount <= 1
  /\ activeCount = Cardinality(Admitted)
  /\ Len(queue) + activeCount <= 1
  /\ activeCount < Concurrency

C25_SecondPageInFlight ==
  /\ pc = "page" /\ currentPage = 2
  /\ rq[Run].st = "flight" /\ rq[Run].page = 2
  /\ activeCount = 1 /\ queue = <<>>

\* The entries of stats.errors of the given phase.
ErrorsOfPhase(phase) ==
  {j \in 1..Len(stats.errors) : stats.errors[j].phase = phase}

\* C26: in every state of a run on a fresh orchestrator, failedCollections
\* is the number of entries of stats.errors of phase "backup"; hence a
\* positive failedCollections comes with a non-empty errors, and the success
\* of a returned result is the emptiness of errors.
C26_FailedMatchesErrors ==
  /\ stats.failedCollections = Cardinality(ErrorsOfPhase("backup"))
  /\ stats.failedCollections > 0 => stats.errors # <<>>
  /\ result.returned => (result.success <=> stats.errors = <<>>)

C26_DiscoveryAndBackupErrors ==
  /\ result.returned /\ ~result.success
  /\ stats.failedCollections = 1 /\ Len(stats.errors) = 2
  /\ stats.errors[1].phase = "discovery" /\ stats.errors[2].phase = "backup"

\* C27: each discovered collection is counted at most once:
\* successfulCollections + failedCollections never exceeds the number of
\* discovered collections with count > 0, and no collection counted as
\* successful (its data and schema saved) has an entry of phase "backup".
C27_CountedOnce ==
  /\ stats.successfulCollections + stats.failedCollections <=
       Cardinality({k \in 1..Len(infos) : infos[k].count > 0})
  /\ \A n \in fs.schemas :
       ~\E j \in 1..Len(stats.errors) : stats.errors[j] = ErrorEntry(n, "backup")

\* C28: a gate slot is always given back: a request that fails or times out
\* releases its slot exactly as one that succeeds, so the slots in use are
\* those of the requests admitted and not settled, the head of the queue can
\* be admitted whenever fewer than C are, and, every admitted request
\* completing, every queued request is eventually admitted.
C28_SlotGivenBack ==
  /\ [](activeCount = Cardinality(Admitted))
  /\ [][\A c \in 1..NCallers :
          (rq[c].st = "flight" /\ rq'[c].st = "done") =>
            activeCount' = activeCount - 1]_vars
  /\ []((queue # <<>> /\ Cardinality(Admitted) < Concurrency) =>
          ENABLED Admit(Head(queue)))
  /\ \A c \in 1..NCallers : (rq[c].st = "queued") ~> (rq[c].st # "queued")

C28_FullAfterFailure ==
  /\ faults > 0
  /\ Cardinality(Admitted) = Concurrency
  /\ activeCount = Concurrency

\* C29: when the data file of a collection has been saved and saving its
\* schema file then fails, the collection is recorded as failed
\* (failedCollections + 1, one entry of phase "backup", totalRecords and
\* successfulCollections as before), and its data file stays as written.
C29_SchemaSaveFails ==
  /\ [][(/\ pc = "saveSchema" /\ pc' = "backupFailed"
         /\ infos[idx].name \notin fs'.schemas) =>
          /\ infos[idx].name \in DOMAIN fs.data
          /\ stats' = stats /\ fs' = fs]_vars
  /\ [][(/\ pc = "backupFailed"
         /\ infos[idx].name \in DOMAIN fs.data
         /\ infos[idx].name \notin fs.schemas) =>
          /\ stats'.failedCollections = stats.failedCollections + 1
          /\ stats'.errors =
               Append(stats.errors, ErrorEntry(infos[idx].name, "backup"))
          /\ stats'.totalRecords = stats.totalRecords
          /\ stats'.successfulCollections = stats.successfulCollections
          /\ fs'.data = fs.data]_vars
  /\ [][\A n \in DOMAIN fs.data :
          n \in DOMAIN fs'.data /\ fs'.data[n] = fs.data[n]]_vars

C29_DataWithoutSchema ==
  /\ result.returned
  /\ \E n \in DOMAIN fs.data :
       /\ n \notin fs.schemas /\ Len(fs.data[n]) > 0
       /\ stats.errors = <<ErrorEntry(n, "backup")>>
  /\ stats.failedCollections = 1 /\ stats.successfulCollections = 0
  /\ stats.totalRecords = 0

\* C30: when discovery yields no collection info (no collection is visible,
\* or every candidate failed its probe), the backup and report phases are
\* skipped: no data request is issued, neither metadata nor summary is
\* written, endTime stays null, and the result has a backupPath that is not
\* null and success true exactly when no discovery error was recorded.
C30_NothingDiscovered ==
  /\ [][(pc = "discovered" /\ infos = <<>>) =>
          /\ pc' = "done"
          /\ result'.returned
          /\ result'.backupPath = getBackupDir(env)
          /\ result'.backupPath # NullPath
          /\ result'.success <=> ErrorsOfPhase("discovery") = {}
          /\ stats'.errors = stats.errors
          /\ ~stats'.endTime
          /\ fs' = fs /\ requests' = requests
          /\ rq' = rq /\ queue' = queue]_vars
  /\ []((/\ infos = <<>>
         /\ \/ pc = "discovered"
            \/ pc = "done" /\ result.backupPath # NullPath) =>
          /\ \A r \in BagToSet(requests) : r.kind # "data"
          /\ rq[Run].st = "idle" /\ queue = <<>>
          /\ ~fs.metadata /\ ~fs.summary
          /\ DOMAIN fs.data = {} /\ fs.schemas = {}
          /\ ~stats.endTime)

C30_AllProbesFailed ==
  /\ result.returned /\ result.backupPath # NullPath
  /\ Len(names) = 2 /\ infos = <<>>
  /\ Len(stats.errors) = 2 /\ ~result.success
  /\ ~stats.endTime

\* The discovered collections that have documents to back up.
WithData == {k \in 1..Len(infos) : infos[k].count > 0}

\* C31: the statistics a call of performBackup reports are those of that call
\* alone, also when it is the second call on the same BackupService: in its
\* result successfulCollections and totalRecords are the collections and the
\* documents this call wrote, failedCollections does not exceed the
\* collections this call had to back up, and errors holds at most one general
\* entry and otherwise only entries of collections this call listed.
C31_OnlyThisRun ==
  result.returned =>
    /\ stats.successfulCollections = Cardinality(fs.schemas)
    /\ stats.totalRecords = SumRecords(fs.schemas)
    /\ stats.failedCollections <= Cardinality(WithData)
    /\ Cardinality(ErrorsOfPhase("general")) <= 1
    /\ \A j \in 1..Len(stats.errors) :
         stats.errors[j].collection \in Range(names) \cup {NoCollection}
====
